---- MODULE Spec2Model ----
(***************************************************************************)
(* Cosmetics Store API (src/main.py): the HTTP handlers over one document  *)
(* collection, "cosmeticproduct".  Every request is a process; a handler   *)
(* takes one step per store operation it makes (what it does between two   *)
(* store calls is local to it), so requests interleave at the granularity  *)
(* of single store calls.  Every store call may fault.                     *)
(***************************************************************************)
EXTENDS Integers, Sequences, FiniteSets, TLC

\* ------------------------------------------------------------------ bounds
\* Number of requests the clients issue in one behaviour.
MaxReq == 2
\* Number of requests the server works on at one time (its worker threads).
MaxWorkers == 2
\* Number of store calls that fault in one behaviour.
MaxFaults == 1
\* Length of the diagnostic message a store fault carries (beyond TruncLen).
MaxDiagLen == 52

\* --------------------------------------------------------------- constants
\* str(e)[:50] in test_database.
TruncLen == 50

\* Python's None.  No modelled string value equals it.
None == "None"

Reqs == 1..MaxReq

\* A diagnostic message of n characters (character i is the number i).
Diag(n) == [i \in 1..n |-> i]

\* The messages of the exceptions a store call may raise.
FaultDiags == {Diag(MaxDiagLen)}

\* Outcomes of one store call: it completes, or raises with a message.
Completes == [ok |-> TRUE, diag |-> <<>>]
Raises == {[ok |-> FALSE, diag |-> m] : m \in FaultDiags}

\* ------------------------------------------------------------ sample data
\* The samples of seed_sample_products (prices in cents; the fields the
\* handlers never look at travel with the record unchanged and are left out).
samples ==
    << [title |-> "Velvet Matte Lipstick",    price |-> 1499, category |-> "makeup"],
       [title |-> "Hydrating Face Serum",     price |-> 2450, category |-> "skincare"],
       [title |-> "Nourishing Hair Oil",      price |-> 1800, category |-> "haircare"],
       [title |-> "Mineral Sunscreen SPF 50", price |-> 1999, category |-> "skincare"] >>

\* len(samples)
len(l) == Len(l)

N == len(samples)

\* ------------------------------------------------------------- the inputs
\* Values of the optional category (query parameter and payload field).
Categories == {None, "", "makeup"}

\* JSON bodies a client posts to /api/products; it may carry an "id" key.
RawPayloads ==
    {[title |-> "Test", price |-> 999, category |-> c, id |-> i] :
        c \in Categories, i \in {None, "2"}}

\* Request validation: pydantic keeps the declared fields of the model and
\* ignores any other key of the body.
CreateProductRequest(raw) ==
    [title |-> raw.title, price |-> raw.price, category |-> raw.category]

NoPayload == [title |-> "", price |-> 0, category |-> None]

\* ---------------------------------------------------------- python pieces
\* Truthiness of an Optional[str].
Truthy(s) == s # None /\ s # ""

\* str(e)[:50]
Truncate(d) == SubSeq(d, 1, IF Len(d) < TruncLen THEN Len(d) ELSE TruncLen)

\* str(ObjectId)
Str(oid) == ToString(oid)

\* Python's order on the strings of the model ("" < "haircare" < "makeup" < ...).
StrOrder == << "", "haircare", "makeup", "skincare" >>

StrRank(s) == CHOOSE i \in 1..Len(StrOrder) : StrOrder[i] = s

StrLess(a, b) == StrRank(a) < StrRank(b)

\* Inserts x into the ascending list l, after the elements not greater.
RECURSIVE InsertSorted(_, _)
InsertSorted(x, l) ==
    IF l = <<>> THEN <<x>>
    ELSE IF StrLess(x, Head(l)) THEN <<x>> \o l
    ELSE <<Head(l)>> \o InsertSorted(x, Tail(l))

\* list.sort()
RECURSIVE Sort(_)
Sort(l) ==
    IF l = <<>> THEN <<>>
    ELSE InsertSorted(l[Len(l)], Sort(SubSeq(l, 1, Len(l) - 1)))

\* ------------------------------------------------------------- the store
\* filter_dict matches a document when every key of it has the same value.
Matches(doc, filter) == \A key \in DOMAIN filter : doc[key] = filter[key]

\* Collection.find(filter): the matching documents, in stored order.
RECURSIVE Find(_, _)
Find(c, filter) ==
    IF c = <<>> THEN <<>>
    ELSE (IF Matches(Head(c), filter) THEN <<Head(c)>> ELSE <<>>)
         \o Find(Tail(c), filter)

\* get_documents(collection, filter_dict)
get_documents(c, filter) == Find(c, filter)

\* Collection.count_documents(filter)
count_documents(c, filter) == Len(Find(c, filter))

\* Whether the value v occurs in the list l.
Occurs(v, l) == \E i \in 1..Len(l) : l[i] = v

\* Collection.distinct("category"): each stored value once (null included).
RECURSIVE distinct(_)
distinct(c) ==
    IF c = <<>> THEN <<>>
    ELSE LET rest == distinct(SubSeq(c, 1, Len(c) - 1))
             v == c[Len(c)].category
         IN IF Occurs(v, rest) THEN rest ELSE Append(rest, v)

\* Collection.insert_one: the document gets the fresh ObjectId oid.  "by" is
\* a history field: the request that wrote the document.
insert_one(c, data, oid, r) ==
    Append(c, [_id |-> oid, title |-> data.title, price |-> data.price,
               category |-> data.category, by |-> r])

\* create_document(collection, data): one insert; the payload's fields only.
create_document(c, data, oid, r) == insert_one(c, data, oid, r)

\* ---------------------------------------------------------- the handlers
\* filter_dict = {"category": category} if category else {}
\* (variant: only a missing parameter means no filter)
FilterDictMut(category) == IF category # None THEN [category |-> category] ELSE <<>>
FilterDict(category) == IF Truthy(category) THEN [category |-> category] ELSE <<>>

\* it["id"] = str(it.pop("_id")); ProductResponse(**it)
\* (variant: _id is dropped and id keeps its default)
ProductResponseMut(it) ==
    [id |-> None, title |-> it.title, price |-> it.price, category |-> it.category]
ProductResponse(it) ==
    [id |-> Str(it._id), title |-> it.title, price |-> it.price, category |-> it.category]

\* results = [...]; for it in items: results.append(ProductResponse(**it))
\* (variant: the loop stops one item early)
ResultsMut(items) == [i \in 1..(Len(items) - 1) |-> ProductResponse(items[i])]
Results(items) == [i \in 1..Len(items) |-> ProductResponse(items[i])]

\* cats = [c for c in cats if c]
RECURSIVE KeepTruthy(_)
\* (variant: only null is dropped)
KeepTruthyMut(l) == SelectSeq(l, LAMBDA c : c # None)
KeepTruthy(l) ==
    IF l = <<>> THEN <<>>
    ELSE (IF Truthy(Head(l)) THEN <<Head(l)>> ELSE <<>>) \o KeepTruthy(Tail(l))

\* new_id = create_document("cosmeticproduct", payload)
\* (variant: the document is written twice)
StoreProductMut(c, payload, oid, r) ==
    create_document(create_document(c, payload, oid, r), payload, oid, r)
StoreProduct(c, payload, oid, r) == create_document(c, payload, oid, r)

\* for s in samples: create_document("cosmeticproduct", s)   (turn k of the loop)
\* (variant: every turn writes the first sample)
StoreSampleMut(c, k, oid, r) == create_document(c, samples[1], oid, r)
StoreSample(c, k, oid, r) == create_document(c, samples[k], oid, r)

\* if count > 0: "Products already exist"
\* (variant: only a full sample set counts as seeded)
AlreadySeededMut(count) == count >= N
AlreadySeeded(count) == count > 0

\* --------------------------------------------------------------- responses
NoDetail == [text |-> "", diag |-> <<>>]
NoSeedBody == [status |-> "", message |-> "", inserted |-> -1, count |-> -1]
NoTestBody ==
    [database |-> NoDetail, database_url |-> "", database_name |-> "",
     connection_status |-> "", collections |-> <<>>]

\* No response yet.
NoResponse ==
    [status |-> 0, via |-> "none", message |-> "", detail |-> NoDetail,
     products |-> <<>>, id |-> "", cats |-> <<>>, fields |-> <<>>,
     seed |-> NoSeedBody, test |-> NoTestBody]

\* A handler returned; FastAPI answers with the route's status code.
Returned(status) == [NoResponse EXCEPT !.status = status, !.via = "return"]

\* raise HTTPException(status_code=..., detail=...)
HTTPException(status, detail) ==
    [NoResponse EXCEPT !.status = status, !.via = "HTTPException", !.detail = detail]

\* An exception left the handler: the framework answers 500 with its own text
\* and the exception's message is not part of the response.
Unhandled ==
    [NoResponse EXCEPT !.status = 500, !.via = "unhandled",
                       !.detail = [text |-> "Internal Server Error", diag |-> <<>>]]

\* if db is None: raise HTTPException(status_code=500, detail="Database not configured")
\* (variant: the handle is used unchecked and the error leaves the handler)
NotConfiguredMut == Unhandled
NotConfigured == HTTPException(500, [text |-> "Database not configured", diag |-> <<>>])

\* ------------------------------------------------------------------- state
VARIABLES
    db,        \* the store handle: None or "db"
    env,       \* which of DATABASE_URL, DATABASE_NAME are set
    coll,      \* the documents of collection "cosmeticproduct", in stored order
    nextOid,   \* the next ObjectId the store hands out
    req,       \* per request: its position in its handler and the handler's locals
    last,      \* the request that ended most recently, and the response it got
    storeOps,  \* history: number of store calls made so far
    faults,    \* history: number of store calls that raised
    created    \* history: the {id: ...} answers of POST /api/products, with the payloads

vars == <<db, env, coll, nextOid, req, last, storeOps, faults, created>>

NoFault == [raised |-> FALSE, diag |-> <<>>]

\* A request that has not arrived, and one that has been answered.
NoRequest == [pc |-> "idle", count |-> 0, k |-> 0]
Answered == [pc |-> "done", count |-> 0, k |-> 0]

\* No request has ended yet.
NoLast ==
    [r |-> 0, kind |-> "none", category |-> None, payload |-> NoPayload,
     count |-> 0, k |-> 0, fault |-> NoFault, at |-> 0, resp |-> NoResponse]

Init ==
    /\ \/ /\ db = "db"
          /\ env = [DATABASE_URL |-> TRUE, DATABASE_NAME |-> TRUE]
       \/ /\ db = None
          /\ env \in [{"DATABASE_URL", "DATABASE_NAME"} -> BOOLEAN]
    /\ coll = <<>>
    /\ nextOid = 1
    /\ req = [r \in Reqs |-> NoRequest]
    /\ last = NoLast
    /\ storeOps = 0
    /\ faults = 0
    /\ created = {}

\* The requests inside a handler.
InFlight == {q \in Reqs : req[q].pc = "insert"}

\* Request r arrives now and a worker takes it (requests are numbered in the
\* order they arrive).
Arrives(r) ==
    /\ req[r].pc = "idle"
    /\ IF r = 1 THEN TRUE ELSE req[r - 1].pc # "idle"
    /\ Cardinality(InFlight) < MaxWorkers

\* The outcomes the next store call may have.
StoreOutcomes == {Completes} \cup (IF faults < MaxFaults THEN Raises ELSE {})

Fault(o) == IF o.ok THEN NoFault ELSE [raised |-> TRUE, diag |-> o.diag]

\* One store call is made, with outcome o.
StoreCall(o) ==
    /\ storeOps' = storeOps + 1
    /\ faults' = IF o.ok THEN faults ELSE faults + 1

\* Request r ends with the response rec.  what: the request's kind and
\* parameters and the handler's locals; at: the number of stored documents
\* when it ends; fault: what the store raised.
Finish(r, what, at, rec, fault) ==
    /\ req' = [req EXCEPT ![r] = Answered]
    /\ last' = [r |-> r, kind |-> what.kind, category |-> what.category,
                payload |-> what.payload, count |-> what.count, k |-> what.k,
                fault |-> fault, at |-> at, resp |-> rec]

\* A request of the given kind, without parameters.
Plain(kind) ==
    [kind |-> kind, category |-> None, payload |-> NoPayload, count |-> 0, k |-> 0]

\* GET /
read_root(r) ==
    /\ Arrives(r)
    /\ Finish(r, Plain("root"), Len(coll),
              [Returned(200) EXCEPT !.message = "Cosmetics Store Backend is running"],
              NoFault)
    /\ UNCHANGED <<db, env, coll, nextOid, storeOps, faults, created>>

\* GET /api/hello
hello(r) ==
    /\ Arrives(r)
    /\ Finish(r, Plain("hello"), Len(coll),
              [Returned(200) EXCEPT !.message = "Hello from the backend API!"], NoFault)
    /\ UNCHANGED <<db, env, coll, nextOid, storeOps, faults, created>>

\* GET /test
test_database(r) ==
    /\ Arrives(r)
    /\ LET url == IF env.DATABASE_URL THEN "Set" ELSE "Not Set"
           name == IF env.DATABASE_NAME THEN "Set" ELSE "Not Set"
           body(database, status, collections) ==
               [Returned(200) EXCEPT !.test =
                   [database |-> database, database_url |-> url, database_name |-> name,
                    connection_status |-> status, collections |-> collections]]
       IN IF db # None
          THEN \E o \in StoreOutcomes :
                  /\ StoreCall(o)
                  /\ IF o.ok
                     THEN Finish(r, Plain("test"), Len(coll),
                                 body([text |-> "Connected & Working", diag |-> <<>>],
                                      "Connected",
                                      IF coll = <<>> THEN <<>> ELSE <<"cosmeticproduct">>),
                                 NoFault)
                     ELSE Finish(r, Plain("test"), Len(coll),
                                 body([text |-> "Connected but Error: ",
                                       diag |-> Truncate(o.diag)],
                                      "Connected", <<>>),
                                 Fault(o))
          ELSE /\ UNCHANGED <<storeOps, faults>>
               /\ Finish(r, Plain("test"), Len(coll),
                         body([text |-> "Available but not initialized", diag |-> <<>>],
                              "Not Connected", <<>>),
                         NoFault)
    /\ UNCHANGED <<db, env, coll, nextOid, created>>

\* GET /schema
get_schema(r) ==
    /\ Arrives(r)
    /\ Finish(r, Plain("schema"), Len(coll),
              [Returned(200) EXCEPT !.fields = <<"title", "price", "category">>], NoFault)
    /\ UNCHANGED <<db, env, coll, nextOid, storeOps, faults, created>>

\* GET /api/products?category=...
list_products(r) ==
    /\ Arrives(r)
    /\ \E category \in Categories :
          LET what == [Plain("list") EXCEPT !.category = category]
          IN IF db = None
             THEN /\ Finish(r, what, Len(coll), NotConfigured, NoFault)
                  /\ UNCHANGED <<storeOps, faults>>
             ELSE \E o \in StoreOutcomes :
                     /\ StoreCall(o)
                     /\ IF o.ok
                        THEN Finish(r, what, Len(coll),
                                    [Returned(200) EXCEPT !.products =
                                       Results(get_documents(coll, FilterDict(category)))],
                                    NoFault)
                        ELSE Finish(r, what, Len(coll), Unhandled, Fault(o))
    /\ UNCHANGED <<db, env, coll, nextOid, created>>

\* POST /api/products
create_product(r) ==
    /\ Arrives(r)
    /\ \E raw \in RawPayloads :
          LET payload == CreateProductRequest(raw)
              what == [Plain("create") EXCEPT !.payload = payload]
          IN IF db = None
             THEN /\ Finish(r, what, Len(coll), NotConfigured, NoFault)
                  /\ UNCHANGED <<coll, nextOid, storeOps, faults, created>>
             ELSE \E o \in StoreOutcomes :
                     /\ StoreCall(o)
                     /\ IF o.ok
                        THEN LET new_id == Str(nextOid)
                             IN /\ coll' = StoreProduct(coll, payload, nextOid, r)
                                /\ nextOid' = nextOid + 1
                                /\ created' = created \cup
                                      {[id |-> new_id, payload |-> payload, raw |-> raw.id]}
                                /\ Finish(r, what, Len(coll) + 1,
                                          [Returned(201) EXCEPT !.id = new_id], NoFault)
                        ELSE /\ UNCHANGED <<coll, nextOid, created>>
                             /\ Finish(r, what, Len(coll), Unhandled, Fault(o))
    /\ UNCHANGED <<db, env>>

\* GET /api/categories
list_categories(r) ==
    /\ Arrives(r)
    /\ IF db = None
       THEN /\ Finish(r, Plain("categories"), Len(coll), NotConfigured, NoFault)
            /\ UNCHANGED <<storeOps, faults>>
       ELSE \E o \in StoreOutcomes :
               /\ StoreCall(o)
               /\ IF o.ok
                  THEN Finish(r, Plain("categories"), Len(coll),
                              [Returned(200) EXCEPT !.cats = Sort(KeepTruthy(distinct(coll)))],
                              NoFault)
                  ELSE Finish(r, Plain("categories"), Len(coll),
                              HTTPException(500, [text |-> "", diag |-> o.diag]),
                              Fault(o))
    /\ UNCHANGED <<db, env, coll, nextOid, created>>

\* POST /api/seed, up to the count check.
seed_sample_products(r) ==
    /\ Arrives(r)
    /\ IF db = None
       THEN /\ Finish(r, Plain("seed"), Len(coll), NotConfigured, NoFault)
            /\ UNCHANGED <<storeOps, faults>>
       ELSE \E o \in StoreOutcomes :
               /\ StoreCall(o)
               /\ IF ~o.ok
                  THEN Finish(r, Plain("seed"), Len(coll), Unhandled, Fault(o))
                  ELSE LET count == count_documents(coll, <<>>)
                       IN IF AlreadySeeded(count)
                          THEN Finish(r, [Plain("seed") EXCEPT !.count = count], Len(coll),
                                      [Returned(200) EXCEPT !.seed =
                                          [status |-> "ok",
                                           message |-> "Products already exist",
                                           inserted |-> -1, count |-> count]],
                                      NoFault)
                          ELSE /\ req' = [req EXCEPT ![r] =
                                     [pc |-> "insert", count |-> count, k |-> 1]]
                               /\ last' = last
    /\ UNCHANGED <<db, env, coll, nextOid, created>>

\* POST /api/seed, one turn of "for s in samples: create_document(...)",
\* and the return after the last one.
seed_sample_products_insert(r) ==
    /\ req[r].pc = "insert"
    /\ LET what == [Plain("seed") EXCEPT !.count = req[r].count, !.k = req[r].k]
       IN \E o \in StoreOutcomes :
             /\ StoreCall(o)
             /\ IF ~o.ok
                THEN /\ UNCHANGED <<coll, nextOid>>
                     /\ Finish(r, what, Len(coll), Unhandled, Fault(o))
                ELSE /\ coll' = StoreSample(coll, req[r].k, nextOid, r)
                     /\ nextOid' = nextOid + 1
                     /\ IF req[r].k < N
                        THEN /\ req' = [req EXCEPT ![r].k = req[r].k + 1]
                             /\ last' = last
                        ELSE Finish(r, [what EXCEPT !.k = N + 1], Len(coll) + 1,
                                    [Returned(200) EXCEPT !.seed =
                                        [status |-> "ok", message |-> "",
                                         inserted |-> len(samples), count |-> -1]],
                                    NoFault)
    /\ UNCHANGED <<db, env, created>>

Next ==
    \E r \in Reqs :
        \/ read_root(r)
        \/ hello(r)
        \/ test_database(r)
        \/ get_schema(r)
        \/ list_products(r)
        \/ create_product(r)
        \/ list_categories(r)
        \/ seed_sample_products(r)
        \/ seed_sample_products_insert(r)

Spec == Init /\ [][Next]_vars

\* ------------------------------------------------------------ properties
\* The request that ended last was answered by its handler returning.
Answered200(kind) == last.kind = kind /\ last.resp.via = "return"

\* The request that ended last was answered with an error status.
AnsweredError == last.r # 0 /\ last.resp.status = 500

\* The documents request r wrote, in stored order, and their number.
WrittenBy(r) == SelectSeq(coll, LAMBDA d : d.by = r)
Added(r) == Len(WrittenBy(r))

\* The public form of a stored document.
AsListed(d) ==
    [id |-> Str(d._id), title |-> d.title, price |-> d.price, category |-> d.category]

\* The products of the last listing.
Listed == last.resp.products

\* The last listing holds the documents at the positions P, each once, and
\* nothing else.
ListedExactly(P) ==
    /\ Len(Listed) = Cardinality(P)
    /\ \A p \in P : \E i \in 1..Len(Listed) : Listed[i] = AsListed(coll[p])
    /\ \A i \in 1..Len(Listed) : \E p \in P : Listed[i] = AsListed(coll[p])

C1_State ==
    Answered200("seed") =>
        IF last.count = 0
        THEN /\ last.resp.status = 200
             /\ last.resp.seed =
                   [status |-> "ok", message |-> "", inserted |-> N, count |-> -1]
             /\ Added(last.r) = N
             /\ last.at >= N
        ELSE /\ last.resp.status = 200
             /\ last.resp.seed =
                   [status |-> "ok", message |-> "Products already exist",
                    inserted |-> -1, count |-> last.at]
             /\ last.at >= 1
             /\ Added(last.r) = 0

\* A seed enters its insert loop only from an empty collection; a seed that
\* returns on arrival found documents, reports their number and adds none.
C1_Step ==
    \A r \in Reqs :
        req[r].pc = "idle" =>
            /\ req'[r].pc = "insert" => coll = <<>>
            /\ (last'.r = r /\ last'.kind = "seed" /\ last'.resp.via = "return") =>
                  /\ coll # <<>>
                  /\ coll' = coll
                  /\ last'.resp.seed.count = Len(coll)

\* C1: seeding is idempotent.  A POST /api/seed that finds the collection
\* empty writes the N samples and answers {status: ok, inserted: N}; one that
\* arrives while at least one document is stored writes nothing and answers
\* {status: ok, message: "Products already exist", count: c} with c the
\* stored count, which the request leaves as it is.
C1_SeedIdempotent == [](C1_State) /\ [][C1_Step]_vars

\* A second seed after a complete first one: "Products already exist", count N.
C1_Witness ==
    /\ Answered200("seed")
    /\ last.r = 2
    /\ last.resp.seed.message = "Products already exist"
    /\ last.resp.seed.count = N
    /\ Len(coll) = N

\* C2 as stated: GET /api/products without category lists every stored
\* product exactly once, and with category=X, for every string X, the empty
\* one included, exactly the stored products whose category is X.
C2_Original ==
    Answered200("list") =>
        ListedExactly({p \in 1..last.at :
                          last.category = None \/ coll[p].category = last.category})

\* C2, amended: GET /api/products without category, or with an empty category,
\* lists every stored product exactly once; with a non-empty category X it
\* lists exactly the stored products whose category is X.
C2_ListProducts ==
    Answered200("list") =>
        ListedExactly({p \in 1..last.at :
                          last.category \in {None, ""} \/ coll[p].category = last.category})

\* After a seed, category=makeup selects one of the N samples.
C2_Witness ==
    /\ Answered200("list")
    /\ last.category = "makeup"
    /\ last.at = N
    /\ Len(Listed) = 1

\* A listing ends in this step.
ListEnds == last'.r # last.r /\ last'.kind = "list" /\ last'.resp.via = "return"

C4_State ==
    /\ \A c \in created :
          /\ c.id \notin {"", None}
          /\ \E p \in 1..Len(coll) :
                /\ c.id = Str(coll[p]._id)
                /\ AsListed(coll[p]) =
                      [id |-> c.id, title |-> c.payload.title, price |-> c.payload.price,
                       category |-> c.payload.category]
    /\ \A p, q \in 1..Len(coll) : p # q => Str(coll[p]._id) # Str(coll[q]._id)
    /\ Answered200("list") =>
          /\ \A i \in 1..Len(Listed) :
                /\ Listed[i].id \notin {"", None}
                /\ \E p \in 1..last.at : Listed[i] = AsListed(coll[p])
          /\ \A i, j \in 1..Len(Listed) : i # j => Listed[i].id # Listed[j].id

C4_Step == \A p \in 1..Len(coll) : p <= Len(coll') /\ coll'[p]._id = coll[p]._id

\* C4: every id answered by POST /api/products and every id in a listing is
\* a non-empty string, the string form of the identifier the store gave the
\* document (whatever "id" the posted body carried); different documents have
\* different ids; and a stored document's identifier, so the id it is listed
\* under, never changes.
C4_IdsAssignedByStore == [](C4_State) /\ [][C4_Step]_vars

\* A body posted with "id": "2" is stored and listed under the store's id "1".
C4_Witness ==
    /\ Answered200("list")
    /\ Len(Listed) = 1
    /\ Listed[1].id = "1"
    /\ \E c \in created : c.raw = "2" /\ c.id = "1"

\* C5: GET /api/categories answers a strictly ascending list (sorted, no
\* duplicates) without empty or null values whose elements are exactly the
\* non-empty category values of the stored products.
C5_ListCategories ==
    Answered200("categories") =>
        LET cats == last.resp.cats
        IN /\ \A i \in 1..Len(cats) : cats[i] \notin {"", None}
           /\ \A i \in 1..(Len(cats) - 1) : StrLess(cats[i], cats[i + 1])
           /\ {cats[i] : i \in 1..Len(cats)} =
                 {coll[p].category : p \in 1..last.at} \ {"", None}

\* After a seed (makeup, skincare, haircare, skincare).
C5_Witness ==
    /\ Answered200("categories")
    /\ last.at = N
    /\ last.resp.cats = <<"haircare", "makeup", "skincare">>

\* C6: with no store handle, the four store-backed endpoints answer 500 with
\* the fixed detail and make no store call, / and /api/hello answer with a
\* message, every request is answered by its handler, and nothing is stored.
C6_StoreUnavailable ==
    db = None =>
        /\ storeOps = 0 /\ coll = <<>> /\ nextOid = 1 /\ created = {}
        /\ \A r \in Reqs : req[r].pc \in {"idle", "done"}
        /\ last.resp.via # "unhandled"
        /\ last.kind \in {"list", "create", "categories", "seed"} =>
              /\ last.resp.status = 500
              /\ last.resp.via = "HTTPException"
              /\ last.resp.detail = [text |-> "Database not configured", diag |-> <<>>]
        /\ last.kind \in {"root", "hello"} =>
              /\ last.resp.status = 200
              /\ last.resp.message # ""

\* The second request, a seed, is refused while the store is unavailable.
C6_Witness ==
    /\ db = None
    /\ last.r = 2
    /\ last.kind = "seed"
    /\ last.resp.status = 500

\* C7 as stated: when a store call of list products, create product, list
\* categories or seed faults, the handler raises the 500 itself, with the
\* truncated diagnostic of the fault as detail.
C7_Original ==
    (last.kind \in {"list", "create", "categories", "seed"} /\ last.fault.raised) =>
        /\ last.resp.status = 500
        /\ last.resp.via = "HTTPException"
        /\ last.resp.detail.diag = Truncate(last.fault.diag)

\* The stored documents that are sample records.
SeedDocs == {p \in 1..Len(coll) : \E k \in 1..N : coll[p].title = samples[k].title}

\* C8 as stated: whatever the interleaving of the seed requests, the
\* collection never holds more than the N sample documents, and at most one
\* seed request has inserted them.
C8_Original ==
    /\ Cardinality(SeedDocs) <= N
    /\ Cardinality({r \in Reqs : Added(r) = N}) <= 1

\* C9 as stated: the GET endpoints write nothing, a successful POST
\* /api/products writes one document, POST /api/seed writes none or N.
C9_Original ==
    last.r # 0 =>
        /\ last.kind \in {"root", "hello", "test", "schema", "list", "categories"} =>
              Added(last.r) = 0
        /\ Answered200("create") => Added(last.r) = 1
        /\ last.kind = "seed" => Added(last.r) \in {0, N}

C9_State ==
    last.r # 0 =>
        /\ last.kind \in {"root", "hello", "test", "schema", "list", "categories"} =>
              Added(last.r) = 0
        /\ last.kind = "create" =>
              Added(last.r) = IF last.resp.via = "return" THEN 1 ELSE 0
        /\ last.kind = "seed" =>
              IF last.resp.via = "return"
              THEN Added(last.r) \in {0, N}
              ELSE Added(last.r) < N

C9_Step ==
    /\ Len(coll) <= Len(coll')
    /\ Len(coll') <= Len(coll) + 1
    /\ SubSeq(coll', 1, Len(coll)) = coll

\* C9, amended: the GET endpoints write nothing; POST /api/products writes
\* one document when it succeeds and none when it fails; POST /api/seed writes
\* none or N documents when it succeeds and fewer than N when it ends in an
\* error; every step keeps the stored documents as they are and adds at most
\* one, so the count never decreases and no stored field changes.
C9_Frame == [](C9_State) /\ [][C9_Step]_vars

\* A seed wrote its N samples around a product created meanwhile.
C9_Witness ==
    /\ Answered200("seed")
    /\ Added(last.r) = N
    /\ Len(coll) = N + 1
    /\ \E p \in 1..Len(coll) : coll[p].title = "Test" /\ p > 1

\* C10 as stated: a request that ends in an error response has left nothing
\* of its own in the collection.
C10_Original == AnsweredError => Added(last.r) = 0

C10_State ==
    AnsweredError =>
        LET kept == IF last.kind = "seed" /\ last.k > 0 THEN last.k - 1 ELSE 0
            mine == WrittenBy(last.r)
        IN /\ Len(mine) = kept
           /\ \A i \in 1..Len(mine) :
                 /\ mine[i].title = samples[i].title
                 /\ mine[i].price = samples[i].price
                 /\ mine[i].category = samples[i].category

\* Some answered seed has left a part of the samples behind.
PartialSeed ==
    \E q \in Reqs :
        /\ req[q].pc = "done"
        /\ Added(q) > 0 /\ Added(q) < N
        /\ WrittenBy(q)[1].title = samples[1].title

\* Once a partial seed is stored, no seed enters the insert loop.
C10_Step == PartialSeed => \A r \in Reqs : req[r].pc = "idle" => req'[r].pc # "insert"

\* C10, amended: a request that ends in an error response has written
\* nothing, except a seed whose k-th insert faulted: its first k-1 samples
\* are stored and stay (there is no rollback), and a seed that arrives later
\* inserts nothing.
C10_ErrorLeavesPartialSeed == [](C10_State) /\ [][C10_Step]_vars

\* A seed faulted on its third insert; the next seed finds the two samples it
\* left and answers "Products already exist" with count 2.
C10_Witness ==
    /\ Answered200("seed")
    /\ last.r = 2
    /\ last.resp.seed.message = "Products already exist"
    /\ last.resp.seed.count = 2
    /\ req[1].pc = "done"
    /\ Added(1) = 2
    /\ faults = 1

====
